---- MODULE Spec2Model ----
(***************************************************************************)
(* Model of internal/db/sqlite.go: the Sqlite catalog store.               *)
(*                                                                         *)
(* The store is a set of relational tables driven through gorm.  Each      *)
(* method of Sqlite is one action; the gorm call it makes is modelled by   *)
(* the SQL that call issues for the value it is given:                     *)
(*   FirstOrCreate(v)  SELECT .. [WHERE pk = v.pk, only if v.pk is set]    *)
(*                     ORDER BY pk LIMIT 1; INSERT v when no row came back *)
(*   First(&v)         the same SELECT; ErrRecordNotFound when no row      *)
(*   First(&v, key)    key is a condition: a numeric string is the pk, the *)
(*                     empty string is none, any other is the WHERE text   *)
(*   Delete(&v, key)   the DELETE of that condition; refused without one   *)
(*   Find(dest)        all rows; never ErrRecordNotFound                   *)
(*   Save(v)           pk unset: INSERT; else UPDATE every column, and     *)
(*                     INSERT .. ON CONFLICT UPDATE when no row was hit    *)
(* Fields of v other than the primary key are never query conditions.      *)
(***************************************************************************)
EXTENDS Integers, Sequences, FiniteSets, TLC

VARIABLES
    handle,      \* the Sqlite NewSqlite returned (URL, BatchSize), or NoSqlite
    db,          \* Sqlite.db: "nil" after NewSqlite, "open" after Connect,
                 \* "failed" when gorm.Open failed, "closed" after Close
    tables,      \* the tables that exist in the store file
    ipsws,       \* table ipsws      (model.Ipsw)
    ipswSeq,     \* sqlite_sequence entry of ipsws
    machos,      \* table machos     (model.Macho)
    symbols,     \* table symbols    (model.Symbol)
    symSeq,      \* sqlite_sequence entry of symbols
    macho_syms,  \* join table macho_syms (macho_uuid, symbol_id)
    batch,       \* bulk ingest: the records the caller feeds to Create
    pos,         \* bulk ingest: index of the next record of batch, or of
                 \* the next statement of the Create in flight
    runs,        \* bulk ingest: number of interruptions so far
    last         \* the last call made on the handle and what it returned

vars == <<handle, db, tables, ipsws, ipswSeq, machos, symbols, symSeq, macho_syms,
          batch, pos, runs, last>>

store == <<ipsws, ipswSeq, machos, symbols, symSeq, macho_syms>>

(***************************************************************************)
(* Bounds of the model.                                                    *)
(***************************************************************************)
MaxIpswID == 2
MaxSymID == 2
MaxAddr == 2
MaxRuns == 1

(***************************************************************************)
(* Entities.  ID 0 and the empty string are Go's zero values: an unset     *)
(* field.                                                                  *)
(***************************************************************************)
IpswNames == {"a.ipsw", "b.ipsw"}
Versions == {"v1", "v2"}
UUIDs == {"U1", "U2"}

Ipsw(id, name, version) == [ID |-> id, Name |-> name, Version |-> version]
ZeroIpsw == Ipsw(0, "", "")

Symbol(id, name, start, end) == [ID |-> id, Name |-> name, Start |-> start, End |-> end]
ZeroSymbol == Symbol(0, "", 0, 0)

\* The (name, start, end) triples callers hand in: two adjacent ranges and a
\* second symbol over the range of the first.
SymbolKeys == {<<"a", 0, 1>>, <<"b", 1, 2>>, <<"x", 0, 1>>}

Key(s) == <<s.Name, s.Start, s.End>>

Macho(uuid, syms) == [UUID |-> uuid, Symbols |-> syms]

NoCall == [op |-> "none"]

Max(a, b) == IF a >= b THEN a ELSE b

(***************************************************************************)
(* gorm queries.                                                           *)
(***************************************************************************)
\* A First that orders by the primary key downwards.
LastByID(rows) == CHOOSE r \in rows : \A q \in rows : q.ID <= r.ID

\* ORDER BY id LIMIT 1
FirstByID(rows) == CHOOSE r \in rows : \A x \in rows : r.ID <= x.ID

\* The WHERE clause gorm derives from the destination struct itself: the
\* primary key when it is set, nothing otherwise.
PrimaryKeyConds(rows, v) == IF v.ID # 0 THEN {r \in rows : r.ID = v.ID} ELSE rows

\* AUTOINCREMENT: one more than the largest id the table has ever held.
MaxID(rows) == IF rows = {} THEN 0 ELSE CHOOSE n \in {r.ID : r \in rows} : \A x \in rows : x.ID <= n
NextID(seq, rows) == 1 + Max(seq, MaxID(rows))

\* Mutant of SymbolsOfImage: the join without the restriction to the image.
SymbolsOfAnyImage(uuid) ==
    {s \in symbols : \E l \in macho_syms, m \in machos :
        /\ l.symbol_id = s.ID
        /\ m.UUID = l.macho_uuid}

\* symbols JOIN macho_syms JOIN machos WHERE machos.uuid = uuid
SymbolsOfImage(uuid) ==
    {s \in symbols : \E l \in macho_syms, m \in machos :
        /\ l.symbol_id = s.ID
        /\ m.UUID = l.macho_uuid
        /\ m.UUID = uuid}

\* Mutant of GetSymbolRows: the end address taken as inclusive.
GetSymbolRowsClosedEnd(uuid, address) ==
    {s \in SymbolsOfImage(uuid) : s.Start <= address /\ address <= s.End}

\* ... AND symbols.start <= address AND address < symbols.end
GetSymbolRows(uuid, address) ==
    {s \in SymbolsOfImage(uuid) : s.Start <= address /\ address < s.End}

(***************************************************************************)
(* Connect: gorm.Open, then AutoMigrate of the six entities.               *)
(***************************************************************************)
\* The tables of the entities AutoMigrate is given, in its order; the join
\* table macho_syms comes with machos.
Migration == <<{"ipsws"}, {"devices"}, {"kernelcaches"}, {"dyld_shared_caches"},
               {"machos", "macho_syms"}, {"symbols"}>>
Migrated(n) == UNION {Migration[i] : i \in 1..n}
Tables == Migrated(Len(Migration))

\* The handle is connected and the tables ts exist.
Ready(ts) == db = "open" /\ ts \subseteq tables

Paths == {"", "ipsw.db"}
BatchSizes == {0, 1, 2}
Sqlite(path, batchSize) == [URL |-> path, BatchSize |-> batchSize]
NoSqlite == [nil |-> TRUE]

Init ==
    /\ handle = Sqlite("ipsw.db", 0)
    /\ db = "nil"
    /\ tables = {}
    /\ ipsws = {}
    /\ ipswSeq = 0
    /\ machos = {}
    /\ symbols = {}
    /\ symSeq = 0
    /\ macho_syms = {}
    /\ batch = <<>>
    /\ pos = 1
    /\ runs = 0
    /\ last = NoCall

Connect ==
    /\ handle # NoSqlite
    /\ db = "nil"
    /\ db' = "open"
    /\ tables' = Tables
    /\ last' = [op |-> "Connect", err |-> "nil"]
    /\ UNCHANGED <<handle, store, batch, pos, runs>>

(***************************************************************************)
(* Create: s.db.FirstOrCreate(value), by the type of value.                *)
(***************************************************************************)
\* The association rows gorm writes after inserting or updating a Macho:
\* INSERT INTO symbols .. ON CONFLICT DO NOTHING for the elements of
\* Macho.Symbols, which fills in the ids of the elements that had none.
RECURSIVE SaveSymbols(_, _, _)
SaveSymbols(elems, rows, seq) ==
    IF elems = <<>>
    THEN [rows |-> rows, seq |-> seq, elems |-> <<>>]
    ELSE LET e == Head(elems)
             id == IF e.ID # 0 THEN e.ID ELSE NextID(seq, rows)
             conflict == \E r \in rows : r.ID = id
             rows1 == IF conflict THEN rows ELSE rows \cup {[e EXCEPT !.ID = id]}
             rest == SaveSymbols(Tail(elems), rows1, Max(seq, id))
         IN  [rows |-> rest.rows, seq |-> rest.seq,
              elems |-> <<[e EXCEPT !.ID = id]>> \o rest.elems]

\* An association write that binds only the first element.
JoinRowsFirst(uuid, elems) ==
    {[macho_uuid |-> uuid, symbol_id |-> elems[i].ID] : i \in 1..Len(elems) \cap {1}}

\* INSERT INTO macho_syms .. ON CONFLICT DO NOTHING
JoinRows(uuid, elems) ==
    {[macho_uuid |-> uuid, symbol_id |-> elems[i].ID] : i \in 1..Len(elems)}

\* The Symbol records a caller holds: new ones, whose ID is unset, and
\* records it got back from the store.
NewSymbols == {Symbol(0, k[1], k[2], k[3]) : k \in SymbolKeys}
SymbolCands == NewSymbols \cup symbols

\* What a caller puts in Macho.Symbols: nothing, one record, or two new
\* symbols.
SymbolLists == {<<>>} \cup {<<e>> : e \in SymbolCands}
                      \cup {l \in {<<e, f>> : e \in NewSymbols, f \in NewSymbols} : l[1] # l[2]}

FirstOrCreateSymbol(c) ==
    /\ Ready({"symbols"})
    /\ LET found == PrimaryKeyConds(symbols, c) IN
       IF found # {}
       THEN /\ last' = [op |-> "CreateSymbol", arg |-> c, ret |-> FirstByID(found), err |-> "nil"]
            /\ UNCHANGED <<symbols, symSeq>>
       ELSE LET row == [c EXCEPT !.ID = IF c.ID # 0 THEN c.ID ELSE NextID(symSeq, symbols)] IN
            /\ row.ID <= MaxSymID
            /\ symbols' = symbols \cup {row}
            /\ symSeq' = Max(symSeq, row.ID)
            /\ last' = [op |-> "CreateSymbol", arg |-> c, ret |-> row, err |-> "nil"]
    /\ UNCHANGED <<handle, db, tables, ipsws, ipswSeq, machos, macho_syms>>

CreateSymbol(c) == FirstOrCreateSymbol(c) /\ UNCHANGED <<batch, pos, runs>>

FirstOrCreateMacho(c) ==
    /\ Ready({"machos", "symbols", "macho_syms"})
    /\ IF \E m \in machos : m.UUID = c.UUID
       THEN /\ last' = [op |-> "CreateMacho", arg |-> c, ret |-> c, err |-> "nil"]
            /\ UNCHANGED <<machos, symbols, symSeq, macho_syms>>
       ELSE LET saved == SaveSymbols(c.Symbols, symbols, symSeq) IN
            /\ saved.seq <= MaxSymID
            /\ machos' = machos \cup {[UUID |-> c.UUID]}
            /\ symbols' = saved.rows
            /\ symSeq' = saved.seq
            /\ macho_syms' = macho_syms \cup JoinRows(c.UUID, saved.elems)
            /\ last' = [op |-> "CreateMacho", arg |-> c,
                        ret |-> Macho(c.UUID, saved.elems), err |-> "nil"]
    /\ UNCHANGED <<handle, db, tables, ipsws, ipswSeq>>

CreateMacho(c) == FirstOrCreateMacho(c) /\ UNCHANGED <<batch, pos, runs>>

(***************************************************************************)
(* GetSymbol and GetSymbols.                                               *)
(***************************************************************************)
GetSymbol(uuid, address) ==
    /\ Ready({"machos", "symbols", "macho_syms"})
    /\ LET rows == GetSymbolRows(uuid, address) IN
       last' = IF rows = {}
               THEN [op |-> "GetSymbol", uuid |-> uuid, address |-> address,
                     ret |-> ZeroSymbol, err |-> "ErrNotFound"]
               ELSE [op |-> "GetSymbol", uuid |-> uuid, address |-> address,
                     ret |-> FirstByID(rows), err |-> "nil"]
    /\ UNCHANGED <<handle, db, tables, store, batch, pos, runs>>

\* Find is handed the nil slice syms by value: the query runs, and gorm's
\* Scan then calls reflect.Value.Set on a value that is not addressable,
\* which panics; syms itself can never be filled in.
FindSymbols(uuid) == [ret |-> {}, err |-> "panic"]

GetSymbols(uuid) ==
    /\ Ready({"machos", "symbols", "macho_syms"})
    /\ last' = [op |-> "GetSymbols", uuid |-> uuid,
                ret |-> FindSymbols(uuid).ret, err |-> FindSymbols(uuid).err]
    /\ UNCHANGED <<handle, db, tables, store, batch, pos, runs>>

(***************************************************************************)
(* Save: s.db.Save(value).                                                 *)
(***************************************************************************)
SaveMacho(c) ==
    /\ Ready({"machos", "symbols", "macho_syms"})
    /\ LET saved == SaveSymbols(c.Symbols, symbols, symSeq) IN
       /\ saved.seq <= MaxSymID
       /\ machos' = machos \cup {[UUID |-> c.UUID]}
       /\ symbols' = saved.rows
       /\ symSeq' = saved.seq
       /\ macho_syms' = macho_syms \cup JoinRows(c.UUID, saved.elems)
       /\ last' = [op |-> "SaveMacho", arg |-> c, err |-> "nil"]
    /\ UNCHANGED <<handle, db, tables, ipsws, ipswSeq, batch, pos, runs>>

(***************************************************************************)
(* The Artifact table: Create and Save of a model.Ipsw, Get, GetByName     *)
(* and Delete.                                                             *)
(***************************************************************************)
\* The Ipsw records a caller holds: ID unset or set, any name, any version
\* (the empty version is Go's zero value).
IpswCands == {Ipsw(id, n, v) : id \in 0..MaxIpswID, n \in IpswNames, v \in Versions \cup {""}}

\* The unique index on ipsws.name: the rows an INSERT or UPDATE of r collides with.
UniqueName(rows, r) == {x \in rows : x.Name = r.Name /\ x.ID # r.ID}

FirstOrCreateIpsw(c) ==
    /\ Ready({"ipsws"})
    /\ LET found == PrimaryKeyConds(ipsws, c) IN
       IF found # {}
       THEN /\ last' = [op |-> "CreateIpsw", arg |-> c, ret |-> FirstByID(found), err |-> "nil"]
            /\ UNCHANGED <<ipsws, ipswSeq>>
       ELSE LET row == [c EXCEPT !.ID = IF c.ID # 0 THEN c.ID ELSE NextID(ipswSeq, ipsws)] IN
            /\ row.ID <= MaxIpswID
            /\ IF UniqueName(ipsws, row) # {}
               THEN /\ last' = [op |-> "CreateIpsw", arg |-> c, ret |-> c, err |-> "constraint"]
                    /\ UNCHANGED <<ipsws, ipswSeq>>
               ELSE /\ ipsws' = ipsws \cup {row}
                    /\ ipswSeq' = Max(ipswSeq, row.ID)
                    /\ last' = [op |-> "CreateIpsw", arg |-> c, ret |-> row, err |-> "nil"]
    /\ UNCHANGED <<handle, db, tables, machos, symbols, symSeq, macho_syms>>

CreateIpsw(c) == FirstOrCreateIpsw(c) /\ UNCHANGED <<batch, pos, runs>>

\* Mutant of UpdateAll: a partial patch that skips the zero-valued fields
\* of c, as gorm's Updates does.
UpdateNonZero(rows, c) ==
    {IF r.ID = c.ID
     THEN Ipsw(r.ID, IF c.Name = "" THEN r.Name ELSE c.Name,
               IF c.Version = "" THEN r.Version ELSE c.Version)
     ELSE r : r \in rows}

\* UPDATE ipsws SET <every column> WHERE id = c.ID
UpdateAll(rows, c) == {IF r.ID = c.ID THEN c ELSE r : r \in rows}

SaveIpsw(c) ==
    /\ Ready({"ipsws"})
    /\ LET row == [c EXCEPT !.ID = IF c.ID # 0 THEN c.ID ELSE NextID(ipswSeq, ipsws)] IN
       /\ row.ID <= MaxIpswID
       /\ IF UniqueName(ipsws, row) # {}
          THEN /\ last' = [op |-> "SaveIpsw", arg |-> c, ret |-> c, err |-> "constraint",
                           old |-> {r \in ipsws : r.ID = row.ID}]
               /\ UNCHANGED <<ipsws, ipswSeq>>
          ELSE /\ ipsws' = IF \E r \in ipsws : r.ID = row.ID
                           THEN UpdateAll(ipsws, row)
                           ELSE ipsws \cup {row}
               /\ ipswSeq' = Max(ipswSeq, row.ID)
               /\ last' = [op |-> "SaveIpsw", arg |-> c, ret |-> row, err |-> "nil",
                           old |-> {r \in ipsws : r.ID = row.ID}]
    /\ UNCHANGED <<handle, db, tables, machos, symbols, symSeq, macho_syms, batch, pos, runs>>

\* Keys are decimal strings: the caller formats an identity with Itoa, and
\* gorm takes a key that parses as a number (Atoi) for the primary key.
Decimal == <<"0", "1", "2", "3", "4", "5", "6", "7", "8", "9">>
Itoa(n) == Decimal[n + 1]
IsNumeric(key) == \E i \in 1..Len(Decimal) : Decimal[i] = key
Atoi(key) == (CHOOSE i \in 1..Len(Decimal) : Decimal[i] = key) - 1

\* The keys a caller passes to Get and Delete: key is a string, and the
\* code hands it to gorm as it is.
Keys == {"", "1=1"} \cup {Itoa(n) : n \in 0..MaxIpswID + 1}

\* gorm's condition for a string key: the primary key when key is a
\* number; the empty key is no condition at all; any other key is taken as
\* the SQL text of the WHERE clause, and "1=1" is true of every row.
KeyConds(rows, key) == IF IsNumeric(key) THEN {r \in rows : r.ID = Atoi(key)} ELSE rows

\* First(&i, key) into a zero Ipsw; its error is dropped.
GetRecord(rows, key) ==
    LET found == KeyConds(rows, key) IN
    IF found = {} THEN ZeroIpsw ELSE FirstByID(found)

\* A Get that calls FirstOrCreate where the code calls First.
GetOrCreate(key) ==
    /\ Ready({"ipsws"})
    /\ LET found == KeyConds(ipsws, key)
           row == IF found = {} THEN Ipsw(NextID(ipswSeq, ipsws), "", "")
                  ELSE FirstByID(found) IN
       /\ row.ID <= MaxIpswID
       /\ ipsws' = ipsws \cup {row}
       /\ ipswSeq' = Max(ipswSeq, row.ID)
       /\ last' = [op |-> "Get", key |-> key, ret |-> row, err |-> "nil"]
    /\ UNCHANGED <<handle, db, tables, machos, symbols, symSeq, macho_syms, batch, pos, runs>>

Get(key) ==
    /\ Ready({"ipsws"})
    /\ last' = [op |-> "Get", key |-> key, ret |-> GetRecord(ipsws, key), err |-> "nil"]
    /\ UNCHANGED <<handle, db, tables, store, batch, pos, runs>>

\* First(&i) with i = &model.Ipsw{Name: name}: i.ID is unset.
GetByNameRows(name) == PrimaryKeyConds(ipsws, Ipsw(0, name, ""))

GetByName(name) ==
    /\ Ready({"ipsws"})
    /\ LET found == GetByNameRows(name) IN
       last' = IF found = {}
               THEN [op |-> "GetByName", name |-> name, ret |-> ZeroIpsw, err |-> "ErrNotFound"]
               ELSE [op |-> "GetByName", name |-> name, ret |-> FirstByID(found), err |-> "nil"]
    /\ UNCHANGED <<handle, db, tables, store, batch, pos, runs>>

\* DELETE FROM ipsws WHERE <condition of key>; gorm refuses a DELETE with
\* no condition (the empty key), and Delete drops that error.
DeleteRows(rows, key) == IF key = "" THEN rows ELSE rows \ KeyConds(rows, key)

Delete(key) ==
    /\ Ready({"ipsws"})
    /\ ipsws' = DeleteRows(ipsws, key)
    /\ last' = [op |-> "Delete", key |-> key, err |-> "nil"]
    /\ UNCHANGED <<handle, db, tables, ipswSeq, machos, symbols, symSeq, macho_syms, batch, pos, runs>>

NextArtifacts ==
    \/ Connect
    \/ \E c \in IpswCands : CreateIpsw(c)
    \/ \E c \in IpswCands : SaveIpsw(c)
    \/ \E k \in Keys : Get(k)
    \/ \E n \in IpswNames \cup {"nonexistent"} : GetByName(n)
    \/ \E k \in Keys : Delete(k)

SpecArtifacts == Init /\ [][NextArtifacts]_vars

NextSymbols ==
    \/ Connect
    \/ \E c \in SymbolCands : CreateSymbol(c)
    \/ \E u \in UUIDs, l \in SymbolLists : CreateMacho(Macho(u, l))
    \/ \E u \in UUIDs, l \in SymbolLists : SaveMacho(Macho(u, l))
    \/ \E u \in UUIDs, a \in 0..MaxAddr : GetSymbol(u, a)
    \/ \E u \in UUIDs : GetSymbols(u)

SpecSymbols == Init /\ [][NextSymbols]_vars

(***************************************************************************)
(* Bulk ingest: the caller feeds a batch of records to Create one by one,  *)
(* outside any transaction (SkipDefaultTransaction).  An interruption ends *)
(* the process after a prefix; the caller connects again and re-runs the   *)
(* whole batch.                                                            *)
(***************************************************************************)
Injective(s) == \A i, j \in 1..Len(s) : s[i] = s[j] => i = j

\* Sequences over S, of one to three elements, without repetition.
Batches(S) == {s \in {<<a>> : a \in S} \cup {<<a, b>> : a \in S, b \in S}
                     \cup {<<a, b, c>> : a \in S, b \in S, c \in S} : Injective(s)}

SymbolBatches == {[i \in 1..Len(s) |-> [type |-> "Symbol", rec |-> Symbol(0, s[i][1], s[i][2], s[i][3])]] :
                    s \in Batches(SymbolKeys)}
MachoBatches == {[i \in 1..Len(s) |-> [type |-> "Macho", rec |-> Macho(s[i], <<>>)]] :
                    s \in Batches(UUIDs)}
IpswBatches == {[i \in 1..Len(s) |-> [type |-> "Ipsw", rec |-> Ipsw(0, s[i], "v1")]] :
                    s \in Batches(IpswNames)}

InitIngest ==
    /\ handle = Sqlite("ipsw.db", 0)
    /\ db = "nil"
    /\ tables = {}
    /\ ipsws = {}
    /\ ipswSeq = 0
    /\ machos = {}
    /\ symbols = {}
    /\ symSeq = 0
    /\ macho_syms = {}
    /\ batch \in SymbolBatches \cup MachoBatches \cup IpswBatches
    /\ pos = 1
    /\ runs = 0
    /\ last = NoCall

Ingest ==
    /\ pos <= Len(batch)
    /\ LET v == batch[pos] IN
       \/ v.type = "Symbol" /\ FirstOrCreateSymbol(v.rec)
       \/ v.type = "Macho" /\ FirstOrCreateMacho(v.rec)
       \/ v.type = "Ipsw" /\ FirstOrCreateIpsw(v.rec)
    /\ pos' = pos + 1
    /\ UNCHANGED <<batch, runs>>

Interrupt ==
    /\ db = "open"
    /\ pos > 1
    /\ runs < MaxRuns
    /\ db' = "nil"
    /\ pos' = 1
    /\ UNCHANGED <<handle, tables>>
    /\ runs' = runs + 1
    /\ last' = NoCall
    /\ UNCHANGED <<store, batch>>

NextIngest == Connect \/ Ingest \/ Interrupt

SpecIngest == InitIngest /\ [][NextIngest]_vars

(***************************************************************************)
(* The life of a handle: NewSqlite, Connect with its failures, the         *)
(* handlers on a handle that is not connected, on a store whose call       *)
(* fails, and Close.                                                       *)
(***************************************************************************)
\* The process before it calls NewSqlite.
Start ==
    /\ handle = NoSqlite
    /\ db = "nil"
    /\ tables = {}
    /\ ipsws = {} /\ ipswSeq = 0
    /\ machos = {}
    /\ symbols = {} /\ symSeq = 0
    /\ macho_syms = {}
    /\ batch = <<>>
    /\ pos = 1
    /\ runs = 0
    /\ last = NoCall

\* A NewSqlite that does not look at path.
NewSqliteUnchecked(path, batchSize) == [ret |-> Sqlite(path, batchSize), err |-> "nil"]

NewSqliteResult(path, batchSize) ==
    IF path = ""
    THEN [ret |-> NoSqlite, err |-> "'path' is required"]
    ELSE [ret |-> Sqlite(path, batchSize), err |-> "nil"]

NewSqlite(path, batchSize) ==
    /\ handle = NoSqlite
    /\ LET r == NewSqliteResult(path, batchSize) IN
       /\ handle' = r.ret
       /\ last' = [op |-> "NewSqlite", path |-> path, batchSize |-> batchSize,
                   ret |-> r.ret, err |-> r.err]
    /\ UNCHANGED <<db, tables, store, batch, pos, runs>>

\* Connect when gorm.Open fails: s.db is assigned the *gorm.DB that Open
\* returns with its error, a pool that cannot reach the file.
ConnectOpenFails ==
    /\ handle # NoSqlite
    /\ db = "nil"
    /\ db' = "failed"
    /\ last' = [op |-> "Connect", err |-> "failed to connect sqlite database"]
    /\ UNCHANGED <<handle, tables, store, batch, pos, runs>>

\* Connect when AutoMigrate fails after n of its entities: s.db stays the
\* open connection, and the error of AutoMigrate is returned.
ConnectMigrateFails(n) ==
    /\ handle # NoSqlite
    /\ db = "nil"
    /\ db' = "open"
    /\ tables' = Migrated(n)
    /\ last' = [op |-> "Connect", err |-> "migrate"]
    /\ UNCHANGED <<handle, store, batch, pos, runs>>

\* The exported methods that reach s.db, and the tables each one's
\* statement names.
Handlers == {"CreateIpsw", "CreateSymbol", "CreateMacho", "SaveIpsw", "SaveMacho",
             "Get", "GetByName", "GetSymbol", "GetSymbols", "Delete", "Close"}
TablesOf(op) ==
    CASE op \in {"CreateIpsw", "SaveIpsw", "Get", "GetByName", "Delete"} -> {"ipsws"}
      [] op = "CreateSymbol" -> {"symbols"}
      [] op = "Close" -> {}
      [] OTHER -> {"machos", "symbols", "macho_syms"}

\* A method called on a handle whose s.db is nil dereferences it.
NilDeref(op) ==
    /\ handle # NoSqlite
    /\ db = "nil"
    /\ last' = [op |-> op, err |-> "panic"]
    /\ UNCHANGED <<handle, db, tables, store, batch, pos, runs>>

\* The error of the store for a statement on the tables ts; fault is an
\* I/O failure of the call.
StoreError(ts, fault) ==
    IF db = "closed" THEN "sql: database is closed"
    ELSE IF db = "failed" THEN "unable to open database file"
    ELSE IF ~(ts \subseteq tables) THEN "no such table"
    ELSE IF fault THEN "disk I/O error"
    ELSE "nil"

\* What a handler returns when its store call failed with e: Get and
\* Delete do not look at the result of the call.
Returned(op, e) == IF op \in {"Get", "Delete"} THEN "nil" ELSE e

\* A handler whose store call fails: nothing is written.
StoreFails(op, fault) ==
    /\ op # "Close"
    /\ db \in {"open", "failed", "closed"}
    /\ LET e == StoreError(TablesOf(op), fault) IN
       /\ e # "nil"
       /\ last' = IF op = "Get"
                  THEN [op |-> op, storeErr |-> e, err |-> Returned(op, e), ret |-> ZeroIpsw]
                  ELSE [op |-> op, storeErr |-> e, err |-> Returned(op, e)]
    /\ UNCHANGED <<handle, db, tables, store, batch, pos, runs>>

\* Close: sql.DB.Close releases the pool the first time, and returns nil
\* without doing anything when the pool is already closed; the error of
\* closing a connection is returned.
Close(fault) ==
    /\ db \in {"open", "failed", "closed"}
    /\ db' = "closed"
    /\ LET e == IF db # "closed" /\ fault THEN "disk I/O error" ELSE "nil" IN
       last' = [op |-> "Close", storeErr |-> e, err |-> e, released |-> db # "closed"]
    /\ UNCHANGED <<handle, tables, store, batch, pos, runs>>

\* The records the callers of this specification write.
LifeIpsws == {Ipsw(0, n, "v1") : n \in IpswNames}
LifeMachos == {Macho(u, <<Symbol(0, "a", 0, 1)>>) : u \in UUIDs}

Next ==
    \/ \E p \in Paths, b \in BatchSizes : NewSqlite(p, b)
    \/ Connect
    \/ ConnectOpenFails
    \/ \E n \in 0..Len(Migration) - 1 : ConnectMigrateFails(n)
    \/ \E op \in Handlers : NilDeref(op)
    \/ \E op \in Handlers, fault \in BOOLEAN : StoreFails(op, fault)
    \/ \E fault \in BOOLEAN : Close(fault)
    \/ \E c \in LifeIpsws : CreateIpsw(c)
    \/ \E c \in LifeMachos : CreateMacho(c)
    \/ \E k \in Keys : Get(k)
    \/ \E n \in IpswNames : GetByName(n)
    \/ \E u \in UUIDs, a \in 0..MaxAddr : GetSymbol(u, a)
    \/ \E u \in UUIDs : GetSymbols(u)
    \/ \E k \in Keys : Delete(k)

Spec == Start /\ [][Next]_vars

(***************************************************************************)
(* Create of a Macho with its Symbols, statement by statement.  The        *)
(* connection is opened with SkipDefaultTransaction and CreateBatchSize =  *)
(* BatchSize, so gorm runs INSERT INTO machos, then INSERT INTO symbols    *)
(* in chunks of BatchSize rows, then INSERT INTO macho_syms in the same    *)
(* chunks, each statement committed on its own; a reader on the same store *)
(* runs between any two of them.                                           *)
(***************************************************************************)
\* The rows of one INSERT: all of them when CreateBatchSize is not positive.
ChunkSize(n) == IF handle.BatchSize <= 0 THEN n ELSE handle.BatchSize
ChunkCount(n) == (n + ChunkSize(n) - 1) \div ChunkSize(n)
ChunkLo(n, j) == (j - 1) * ChunkSize(n) + 1
ChunkHi(n, j) == IF j * ChunkSize(n) < n THEN j * ChunkSize(n) ELSE n
Chunk(elems, j) == SubSeq(elems, ChunkLo(Len(elems), j), ChunkHi(Len(elems), j))

\* The statements of the call: one for the machos row, and one per chunk
\* for the symbols and for the association rows.
StatementCount(c) == 1 + 2 * ChunkCount(Len(c.Symbols))

\* A Macho record with two or more new symbols.
BulkMachos == {Macho(u, [i \in 1..Len(s) |-> Symbol(0, s[i][1], s[i][2], s[i][3])]) :
                 u \in UUIDs, s \in {b \in Batches(SymbolKeys) : Len(b) >= 2 /\ Len(b) <= MaxSymID}}

InitBulk ==
    /\ handle \in {Sqlite("ipsw.db", b) : b \in BatchSizes}
    /\ db = "nil"
    /\ tables = {}
    /\ ipsws = {} /\ ipswSeq = 0
    /\ machos = {}
    /\ symbols = {} /\ symSeq = 0
    /\ macho_syms = {}
    /\ batch \in {<<[type |-> "Macho", rec |-> c]>> : c \in BulkMachos}
    /\ pos = 1
    /\ runs = 0
    /\ last = NoCall

\* The next statement of Create(&model.Macho{UUID, Symbols}).
CreateMachoStatement ==
    /\ Ready({"machos", "symbols", "macho_syms"})
    /\ LET c == batch[1].rec
           n == Len(c.Symbols)
           k == ChunkCount(n)
       IN
       /\ pos <= StatementCount(c)
       /\ IF pos = 1
          THEN IF \E m \in machos : m.UUID = c.UUID
               THEN /\ pos' = StatementCount(c) + 1
                    /\ UNCHANGED <<machos, symbols, symSeq, macho_syms, batch>>
               ELSE /\ machos' = machos \cup {[UUID |-> c.UUID]}
                    /\ pos' = pos + 1
                    /\ UNCHANGED <<symbols, symSeq, macho_syms, batch>>
          ELSE IF pos <= k + 1
          THEN LET j == pos - 1
                   saved == SaveSymbols(Chunk(c.Symbols, j), symbols, symSeq)
                   elems == [i \in 1..n |->
                               IF i >= ChunkLo(n, j) /\ i <= ChunkHi(n, j)
                               THEN saved.elems[i - ChunkLo(n, j) + 1]
                               ELSE c.Symbols[i]]
               IN /\ saved.seq <= MaxSymID
                  /\ symbols' = saved.rows
                  /\ symSeq' = saved.seq
                  /\ batch' = <<[type |-> "Macho", rec |-> Macho(c.UUID, elems)]>>
                  /\ pos' = pos + 1
                  /\ UNCHANGED <<machos, macho_syms>>
          ELSE /\ macho_syms' = macho_syms \cup JoinRows(c.UUID, Chunk(c.Symbols, pos - k - 1))
               /\ pos' = pos + 1
               /\ UNCHANGED <<machos, symbols, symSeq, batch>>
       /\ last' = [op |-> "CreateMacho", arg |-> c, statement |-> pos, err |-> "nil"]
    /\ UNCHANGED <<handle, db, tables, ipsws, ipswSeq, runs>>

NextBulk ==
    \/ Connect
    \/ CreateMachoStatement
    \/ \E u \in UUIDs, a \in 0..MaxAddr : GetSymbol(u, a)

SpecBulk == InitBulk /\ [][NextBulk]_vars

(***************************************************************************)
(* Properties.                                                             *)
(***************************************************************************)
\* s is bound to the image uuid by a row of the association table.
Linked(s, uuid) == [macho_uuid |-> uuid, symbol_id |-> s.ID] \in macho_syms

Covers(s, address) == s.Start <= address /\ address < s.End

\* C1: Create is idempotent on the natural key: a Create of an Artifact
\* that carries name K and no identity succeeds, leaves exactly one stored
\* row named K, and returns that row.
C1_CreateIdempotent ==
    (last.op = "CreateIpsw" /\ last.arg.ID = 0) =>
        /\ last.err = "nil"
        /\ Cardinality({r \in ipsws : r.Name = last.arg.Name}) = 1
        /\ last.ret \in ipsws
        /\ last.ret.Name = last.arg.Name

\* C2: GetSymbol is half-open and exact: a returned symbol is linked to
\* the image and has start <= address < end, and ErrNotFound is returned
\* exactly when no symbol linked to the image covers the address.
C2_GetSymbolHalfOpen ==
    last.op = "GetSymbol" =>
        /\ last.err \in {"nil", "ErrNotFound"}
        /\ last.err = "nil" =>
              /\ last.ret \in symbols
              /\ Linked(last.ret, last.uuid)
              /\ last.ret.Start <= last.address
              /\ last.address < last.ret.End
        /\ last.err = "ErrNotFound" <=>
              ~ \E s \in symbols : Linked(s, last.uuid) /\ Covers(s, last.address)

\* A lookup at the end address of a linked symbol that found nothing.
C2_Witness ==
    /\ last.op = "GetSymbol"
    /\ last.err = "ErrNotFound"
    /\ \E s \in symbols : Linked(s, last.uuid) /\ s.End = last.address

\* C3: GetSymbol is scoped to the image: it never returns a symbol that is
\* not linked to the image asked for, and it returns ErrNotFound when only
\* symbols of other images cover the address.
C3_GetSymbolScoped ==
    last.op = "GetSymbol" =>
        /\ last.err = "nil" => Linked(last.ret, last.uuid)
        /\ (\A s \in symbols : Covers(s, last.address) => ~ Linked(s, last.uuid))
              => last.err = "ErrNotFound"

\* A lookup that found nothing while a symbol of another image covers the
\* address.
C3_Witness ==
    /\ last.op = "GetSymbol"
    /\ last.err = "ErrNotFound"
    /\ \E s \in symbols, u \in UUIDs :
          /\ u # last.uuid
          /\ Linked(s, u)
          /\ ~ Linked(s, last.uuid)
          /\ Covers(s, last.address)

\* C4: GetByName is keyed on the name: it returns a record only if that
\* record is a stored Artifact named as asked, and ErrNotFound when no
\* stored Artifact has the name.
C4_GetByNameKeyed ==
    last.op = "GetByName" =>
        /\ last.err = "nil" => (last.ret \in ipsws /\ last.ret.Name = last.name)
        /\ (~ \E r \in ipsws : r.Name = last.name) => last.err = "ErrNotFound"

\* C5: Symbols are interned: no two Symbol rows carry the same
\* (name, start, end), every symbol created has its row, and a symbol
\* created with an image is linked to that image.
C5_SymbolInterning ==
    /\ \A r1, r2 \in symbols : Key(r1) = Key(r2) => r1 = r2
    /\ (last.op = "CreateSymbol" /\ last.err = "nil") =>
          \E r \in symbols : Key(r) = Key(last.arg)
    /\ (last.op = "CreateMacho" /\ last.err = "nil") =>
          \A i \in 1..Len(last.arg.Symbols) :
              \E r \in symbols : /\ Key(r) = Key(last.arg.Symbols[i])
                                 /\ Linked(r, last.arg.UUID)

\* The natural keys of a batch and of the table it goes to.
BatchKeys ==
    {IF batch[i].type = "Symbol" THEN Key(batch[i].rec)
     ELSE IF batch[i].type = "Macho" THEN batch[i].rec.UUID
     ELSE batch[i].rec.Name : i \in 1..Len(batch)}

StoredKeys ==
    IF batch[1].type = "Symbol" THEN {Key(r) : r \in symbols}
    ELSE IF batch[1].type = "Macho" THEN {r.UUID : r \in machos}
    ELSE {r.Name : r \in ipsws}

StoredRows ==
    IF batch[1].type = "Symbol" THEN Cardinality(symbols)
    ELSE IF batch[1].type = "Macho" THEN Cardinality(machos)
    ELSE Cardinality(ipsws)

\* C6: Bulk ingest is resumable: once the batch has been re-run to its end
\* after an interruption, the table holds exactly the records of the
\* batch, each once.
C6_IngestResumable ==
    (runs > 0 /\ pos = Len(batch) + 1) =>
        /\ StoredKeys = BatchKeys
        /\ StoredRows = Len(batch)

\* C7: Save overwrites: a successful Save of a record whose identity is
\* stored replaces that row by the record, leaves the other rows and the
\* row count as they were, and Get by that identity then returns the
\* record; a successful Save of a record with no identity adds one row,
\* the record under a new identity.
C7_SaveOverwrites ==
    [][(last'.op = "SaveIpsw" /\ last'.err = "nil") =>
        LET c == last'.arg IN
        IF c.ID # 0 /\ (\E r \in ipsws : r.ID = c.ID)
        THEN /\ Cardinality(ipsws') = Cardinality(ipsws)
             /\ {r \in ipsws' : r.ID = c.ID} = {c}
             /\ {r \in ipsws' : r.ID # c.ID} = {r \in ipsws : r.ID # c.ID}
             /\ GetRecord(ipsws', Itoa(c.ID)) = c
        ELSE c.ID = 0 =>
             /\ Cardinality(ipsws') = Cardinality(ipsws) + 1
             /\ \E r \in ipsws' \ ipsws :
                   /\ r = [c EXCEPT !.ID = r.ID]
                   /\ r.ID # 0
                   /\ ~ \E x \in ipsws : x.ID = r.ID
                   /\ ipsws' = ipsws \cup {r}]_vars

\* A Save that changed the name and cleared the version of a stored row.
C7_Witness ==
    /\ last.op = "SaveIpsw"
    /\ last.err = "nil"
    /\ last.arg.ID # 0
    /\ last.arg.Version = ""
    /\ \E o \in last.old : o.Name # last.arg.Name /\ o.Version # ""
    /\ last.arg \in ipsws

\* C8: Create matches on the natural key only: a Create of a Symbol that
\* carries no identity returns a stored row with the candidate's own
\* (name, start, end), whatever other rows the table holds.
C8_CreateMatchesNaturalKey ==
    (last.op = "CreateSymbol" /\ last.arg.ID = 0 /\ last.err = "nil") =>
        /\ last.ret \in symbols
        /\ Key(last.ret) = Key(last.arg)

\* C9: GetSymbols of an image that has linked symbols succeeds and returns
\* exactly the Symbol rows linked to it.
C9_GetSymbolsReturnsLinked ==
    (last.op = "GetSymbols" /\ \E s \in symbols : Linked(s, last.uuid)) =>
        /\ last.err = "nil"
        /\ last.ret = {s \in symbols : Linked(s, last.uuid)}

\* C10: GetSymbols of an image that has no linked symbol returns
\* ErrNotFound.
C10_GetSymbolsNotFound ==
    (last.op = "GetSymbols" /\ ~ \E s \in symbols : Linked(s, last.uuid)) =>
        last.err = "ErrNotFound"

\* C11: Delete(k) removes exactly the Artifact row whose identity is k and
\* nothing else: every other Artifact row and every image, symbol and link
\* row is unchanged, a Get(k) afterwards does not return the removed row,
\* and when no Artifact has identity k the call succeeds and the store is
\* left as it was.
C11_DeleteExact ==
    [][last'.op = "Delete" =>
        /\ last'.err = "nil"
        /\ ipsws' = {r \in ipsws : Itoa(r.ID) # last'.key}
        /\ GetRecord(ipsws', last'.key) \notin ipsws \ ipsws'
        /\ UNCHANGED <<machos, symbols, macho_syms>>]_vars

\* C12: Get(k) returns the stored Artifact whose identity is k when there is
\* one, and otherwise a zero Artifact, with no error either way and never
\* the data of another Artifact.
C12_GetByIdentity ==
    last.op = "Get" =>
        /\ last.err = "nil"
        /\ \A r \in ipsws : Itoa(r.ID) = last.key => last.ret = r
        /\ (\A r \in ipsws : Itoa(r.ID) # last.key) => last.ret = ZeroIpsw

\* C13: once Close has returned on a handle, every later operation on it,
\* a second Close included, is rejected with the error of a closed store
\* and leaves the store unchanged, and the handle is not released again.
C13_ClosedRejects ==
    [][db = "closed" =>
        /\ last'.err = "sql: database is closed"
        /\ store' = store
        /\ last'.op = "Close" => ~last'.released]_vars

\* C14: when the store reports a failure during Create, Save, GetByName,
\* GetSymbol, GetSymbols, Delete or Close, the operation returns that
\* error as it is; none of them reports success after its store call failed.
C14_StoreErrorReturned ==
    (/\ last.op \in Handlers \ {"Get"}
     /\ "storeErr" \in DOMAIN last
     /\ last.storeErr # "nil") => last.err = last.storeErr

\* The handlers that read or write the catalog.
CatalogOps == Handlers \ {"Close"}

\* C15: a catalog operation reaches the store only after the migration has
\* run to completion: one that is called on an open connection finds every
\* table, so that a handle whose Connect failed never runs one against a
\* partially migrated store.
C15_MigratedBeforeUse ==
    [][(last'.op \in CatalogOps /\ db = "open") => tables = Tables]_vars

\* C16: NewSqlite with the empty path returns no handle and an error,
\* whatever the batch size, and opens, creates and migrates nothing; with
\* any other path it returns a handle on that path and no error.
C16_NewSqlitePath ==
    last.op = "NewSqlite" =>
        /\ db = "nil" /\ tables = {}
        /\ last.path = "" => (last.ret = NoSqlite /\ last.err # "nil" /\ handle = NoSqlite)
        /\ last.path # "" => /\ last.err = "nil"
                             /\ last.ret = Sqlite(last.path, last.batchSize)
                             /\ handle = last.ret

\* NewSqlite was called with the empty path and a batch size, and refused.
C16_Witness ==
    /\ last.op = "NewSqlite"
    /\ last.path = ""
    /\ last.batchSize # 0
    /\ last.err = "'path' is required"

\* C17: the identity of every stored Artifact row was assigned by the store
\* when the row was inserted, never supplied by the caller: a row whose
\* identity is new to the table carries the identity the store generates
\* next, and the identities of the rows already stored do not change.
C17_StoreAssignedIdentity ==
    [][\A r \in ipsws' :
        (\A x \in ipsws : x.ID # r.ID) => r.ID = NextID(ipswSeq, ipsws)]_vars

\* C20: GetSymbol is deterministic when the ranges of several symbols of an
\* image overlap at the address: of the symbols linked to the image whose
\* range holds the address it returns the one with the smallest identity.
C20_GetSymbolSmallestID ==
    (last.op = "GetSymbol" /\ last.err = "nil") =>
        /\ Linked(last.ret, last.uuid) /\ Covers(last.ret, last.address)
        /\ last.ret \in symbols
        /\ \A s \in symbols :
              (Linked(s, last.uuid) /\ Covers(s, last.address)) => last.ret.ID <= s.ID

\* GetSymbol answered at an address that two symbols of the image cover.
C20_Witness ==
    /\ last.op = "GetSymbol"
    /\ last.err = "nil"
    /\ \E s \in symbols :
          s # last.ret /\ Linked(s, last.uuid) /\ Covers(s, last.address)

Reads == {"Get", "GetByName", "GetSymbol", "GetSymbols"}

InFlight == batch[1].rec
Completed == pos = StatementCount(InFlight) + 1

\* C18: the symbols of an image are not written atomically.  A GetSymbol
\* that runs between the statements of the ingest sees only what is
\* committed so far, a part of the image's symbols and never a symbol that
\* is not of the batch; once the ingest has completed, the same query finds
\* a symbol at every address that a symbol of the batch covers.
C18_BulkVisibility ==
    (last.op = "GetSymbol" /\ last.uuid = InFlight.UUID) =>
        LET want == {i \in 1..Len(InFlight.Symbols) : Covers(InFlight.Symbols[i], last.address)} IN
        /\ last.err = "nil" => \E i \in want : Key(InFlight.Symbols[i]) = Key(last.ret)
        /\ last.err # "nil" => last.err = "ErrNotFound"
        /\ (Completed /\ want # {}) => last.err = "nil"

\* A non-empty proper prefix of the image's symbols is committed and the
\* rest is not, and a GetSymbol at an address that only a symbol not yet
\* committed covers has answered ErrNotFound.
C18_Witness ==
    /\ last.op = "GetSymbol"
    /\ last.uuid = InFlight.UUID
    /\ last.err = "ErrNotFound"
    /\ symbols # {}
    /\ Cardinality(symbols) < Len(InFlight.Symbols)
    /\ \E i \in 1..Len(InFlight.Symbols) :
          /\ Covers(InFlight.Symbols[i], last.address)
          /\ InFlight.Symbols[i].ID = 0
    /\ \A s \in symbols : ~Covers(s, last.address)
====
